---- MODULE Spec2Model ----
(***************************************************************************)
(* The bLuna liquidation vault of src/src/contract.rs as a state machine.  *)
(*                                                                         *)
(* One action per ExecuteMsg.  An action runs the handler (an operator     *)
(* that returns the handler's result, the storage it wrote and its         *)
(* outgoing messages), then lets the host execute the outgoing messages in *)
(* order against the bank, the collateral token and the bid queue, and     *)
(* commits storage and external effects only when both succeeded.          *)
(*                                                                         *)
(* Amounts are Uint128 in the code; every amount of the model stays far    *)
(* below 2^128, so the overflow errors of checked_mul/try_from are not     *)
(* reachable here and are not modelled.  Subtraction underflow and         *)
(* division by zero of the unchecked operators are modelled ("Panic").     *)
(***************************************************************************)
EXTENDS Integers, Sequences, FiniteSets, TLC

\* ------------------------------------------------------------ bounds
\* Block time runs over 0..MaxTime.
MaxTime == 2
\* What the vault holds (idle uusd, uusd in bids, bLuna idle and pending)
\* never exceeds MaxFunds units.
MaxFunds == 2
\* total_supply never exceeds MaxSupply.
MaxSupply == MaxFunds + 1
\* Bid identifiers handed out by the queue stay within 1..MaxBidIdx.
MaxBidIdx == MaxFunds
\* The most bids the queue holds when the pagination loop is examined.
MaxBids == 5

\* Addresses that invoke the contract.
Addr == {"a1", "a2"}
\* Addresses offered as swap wallet.
Wallets == {"swap_wallet"}
\* The oracle's rates, as Decimal256 atomics over DecimalFractional.
Prices == {1, 3}
\* Premium slots offered to SubmitBid.
Slots == {1, 2}

\* ------------------------------------------------- program constants
\* LOCK_PERIOD (14 days in the code), in model time units.
LOCK_PERIOD == 1
\* WITHDRAW_LOCK, in model time units.
WITHDRAW_LOCK == 1
\* The page size of every BidsByUser query (limit: Some(31)), scaled.
Limit == 2
\* Decimal256's denominator (10^18 in cosmwasm_std), scaled.
DecimalFractional == 2

VARIABLES
    state,          \* STATE, Item<State>: owner, total_supply, locked_b_luna, swap_wallet, paused
    balances,       \* BALANCES, Map<addr, Uint128>, read with unwrap_or_default
    permissions,    \* PERMISSIONS, Map<addr, Permission>, read with unwrap_or(submit_bid: false)
    last_deposit,   \* LAST_DEPOSIT, Map<addr, Timestamp>: None where there is no entry
    claim_list,     \* CLAIM_LIST, Map<U32Key, TokenRecord>, as the key-ascending sequence of its entries
    uusd,           \* the vault's idle uusd balance at the bank
    b_luna,         \* the vault's bLuna balance at the collateral token
    bids,           \* the vault's bids in the liquidation queue, ascending by idx
    price,          \* the oracle's bLuna/uusd rate (atomics)
    now,            \* env.block.time
    trip            \* history: the deposit whose withdrawal is being followed, or None

vars == <<state, balances, permissions, last_deposit, claim_list,
          uusd, b_luna, bids, price, now, trip>>

\* ------------------------------------------------------------ helpers
RECURSIVE SumAmount(_)
SumAmount(s) == IF s = <<>> THEN 0 ELSE Head(s).amount + SumAmount(Tail(s))

RECURSIVE SumPending(_)
SumPending(s) ==
    IF s = <<>> THEN 0 ELSE Head(s).pending_liquidated_collateral + SumPending(Tail(s))

RECURSIVE SumOver(_, _)
SumOver(f, S) ==
    IF S = {} THEN 0 ELSE LET x == CHOOSE y \in S : TRUE IN f[x] + SumOver(f, S \ {x})

Min(a, b) == IF a <= b THEN a ELSE b

\* Option<T>: None is the empty sequence, Some(v) is <<v>>.
None == <<>>
Some(v) == <<v>>

\* A response without attributes of interest.
NoAttrs == [none |-> TRUE]

\* The storage the handlers read and write.
Storage ==
    [state |-> state, balances |-> balances, permissions |-> permissions,
     last_deposit |-> last_deposit, claim_list |-> claim_list]

\* A failure answered with an empty response.
Err_swallowed(kind, store) == [res |-> "Ok", store |-> store, msgs |-> <<>>, attrs |-> NoAttrs]

\* A handler's result: Ok with a response, or an error.  An error still
\* carries the storage as written up to the failure; the host discards it.
Ok(store, msgs, attrs) == [res |-> "Ok", store |-> store, msgs |-> msgs, attrs |-> attrs]
Err(kind, store) == [res |-> kind, store |-> store, msgs |-> <<>>, attrs |-> NoAttrs]

\* ------------------------------------------------------------ queries
\* BidsByUser{start_after, limit}: the first `limit` bids with idx > start_after.
BidsByUser(start_after, limit) ==
    LET after == SelectSeq(bids, LAMBDA b : b.idx > start_after)
    IN  SubSeq(after, 1, Min(limit, Len(after)))

\* A loop that takes a page of exactly Limit bids for the last one.
BidTotalsFrom_full_page_last(start_after) ==
    LET res == BidsByUser(start_after, Limit)
    IN  [usd |-> SumAmount(res), b_luna |-> SumPending(res)]

\* The pagination loop of deposit, withdraw_ust, claim_liquidation and the
\* queries: sums amount and pending_liquidated_collateral over every page,
\* stopping at the first page shorter than Limit.
RECURSIVE BidTotalsFrom(_)
BidTotalsFrom(start_after) ==
    LET res == BidsByUser(start_after, Limit)
        here == [usd |-> SumAmount(res), b_luna |-> SumPending(res)]
    IN  IF Len(res) < Limit THEN here
        ELSE LET rest == BidTotalsFrom(res[Len(res)].idx)
             IN  [usd |-> here.usd + rest.usd, b_luna |-> here.b_luna + rest.b_luna]

BidTotals == BidTotalsFrom(0)

\* The pages the loop fetches, in order, up to and including the first one
\* shorter than Limit.
RECURSIVE BidPagesFrom(_)
BidPagesFrom(start_after) ==
    LET res == BidsByUser(start_after, Limit)
    IN  IF Len(res) < Limit THEN <<res>>
        ELSE <<res>> \o BidPagesFrom(res[Len(res)].idx)

\* Uint256::from(b).mul(price): floor(b * atomics / 10^18).
MulPrice(b) == (b * price) \div DecimalFractional

\* A total cap that leaves the locked bLuna out of the valuation.
TotalCap_free(usd_balance) ==
    MulPrice((b_luna - state.locked_b_luna) + BidTotals.b_luna) + usd_balance + BidTotals.usd

\* total_cap as the handlers compute it from an idle uusd balance.
TotalCap(usd_balance) == MulPrice(b_luna + BidTotals.b_luna) + usd_balance + BidTotals.usd

\* ------------------------------------------------------------ deposit
\* A deposit valued against a vault that already counts the attached funds.
DepositUsdBalance_funds_counted(share) == uusd + share

\* The idle uusd balance deposit values the vault with: the bank balance,
\* which already holds the attached funds, less those funds.
DepositUsdBalance(share) == (uusd + share) - share

\* The scaled amount rounded up.
DepositShare_ceil(amount, total_supply, total_cap) ==
    IF total_supply # 0
    THEN (amount * total_supply + total_cap - 1) \div total_cap
    ELSE amount

\* A first deposit credited with what the vault already holds.
DepositShare_bootstrap_cap(amount, total_supply, total_cap) ==
    IF total_supply # 0 THEN (amount * total_supply) \div total_cap ELSE amount + total_cap

\* The shares a deposit mints: the amount itself while there is no supply,
\* else the amount scaled by total_supply / total_cap, rounded down.
DepositShare(amount, total_supply, total_cap) ==
    IF total_supply # 0 THEN (amount * total_supply) \div total_cap ELSE amount

\* A balance saved instead of updated.
Credit_overwrite(balance, share) == share

\* BALANCES.update: balance.unwrap_or_default() + share.
Credit(balance, share) == balance + share

\* deposit that looks at the paused flag before it looks at the funds.
deposit_paused_first(sender, funds) ==
    IF state.paused THEN Err("Paused", Storage)
    ELSE IF Len(funds) # 1 THEN Err("Invalidate", Storage)
    ELSE LET amount == funds[1].amount IN
    IF funds[1].denom # "uusd" \/ amount = 0 THEN Err("Invalidate", Storage)
    ELSE LET s1 == [Storage EXCEPT !.last_deposit[sender] = Some(now)]
             total_cap == TotalCap(DepositUsdBalance(amount))
         IN
    IF state.total_supply # 0 /\ total_cap = 0 THEN Err("DivideByZeroError", s1)
    ELSE LET share == DepositShare(amount, state.total_supply, total_cap)
             s2 == [s1 EXCEPT !.state.total_supply = @ + share,
                              !.balances[sender] = Credit(@, share)]
         IN  Ok(s2, <<>>, [amount |-> amount, share |-> share])

\* deposit that treats a zero total cap like the first deposit.
deposit_zero_cap_bootstrap(sender, funds) ==
    IF Len(funds) # 1 THEN Err("Invalidate", Storage)
    ELSE LET amount == funds[1].amount IN
    IF funds[1].denom # "uusd" \/ amount = 0 THEN Err("Invalidate", Storage)
    ELSE IF state.paused THEN Err("Paused", Storage)
    ELSE LET s1 == [Storage EXCEPT !.last_deposit[sender] = Some(now)]
             total_cap == TotalCap(DepositUsdBalance(amount))
             share == IF total_cap = 0 THEN amount
                      ELSE DepositShare(amount, state.total_supply, total_cap)
             s2 == [s1 EXCEPT !.state.total_supply = @ + share,
                              !.balances[sender] = Credit(@, share)]
         IN  Ok(s2, <<>>, [amount |-> amount, share |-> share])

\* deposit without the check of the paused flag.
deposit_while_paused(sender, funds) ==
    IF Len(funds) # 1 THEN Err("Invalidate", Storage)
    ELSE LET amount == funds[1].amount IN
    IF funds[1].denom # "uusd" \/ amount = 0 THEN Err("Invalidate", Storage)
    ELSE LET s1 == [Storage EXCEPT !.last_deposit[sender] = Some(now)]
             total_cap == TotalCap(DepositUsdBalance(amount))
         IN
    IF state.total_supply # 0 /\ total_cap = 0 THEN Err("DivideByZeroError", s1)
    ELSE LET share == DepositShare(amount, state.total_supply, total_cap)
             s2 == [s1 EXCEPT !.state.total_supply = @ + share,
                              !.balances[sender] = Credit(@, share)]
         IN  Ok(s2, <<>>, [amount |-> amount, share |-> share])

deposit(sender, funds) ==
    IF Len(funds) # 1 THEN Err("Invalidate", Storage)
    ELSE LET amount == funds[1].amount IN
    IF funds[1].denom # "uusd" \/ amount = 0 THEN Err("Invalidate", Storage)
    ELSE IF state.paused THEN Err("Paused", Storage)
    ELSE LET s1 == [Storage EXCEPT !.last_deposit[sender] = Some(now)]
             total_cap == TotalCap(DepositUsdBalance(amount))
         IN
    IF state.total_supply # 0 /\ total_cap = 0 THEN Err("DivideByZeroError", s1)
    ELSE LET share == DepositShare(amount, state.total_supply, total_cap)
             s2 == [s1 EXCEPT !.state.total_supply = @ + share,
                              !.balances[sender] = Credit(@, share)]
         IN  Ok(s2, <<>>, [amount |-> amount, share |-> share])

\* ------------------------------------------------------- outgoing messages
BankSendMsg(to_address, amount) ==
    [kind |-> "BankSend", to_address |-> to_address, amount |-> amount]
SubmitBidMsg(amount, premium_slot) ==
    [kind |-> "SubmitBid", funds |-> amount, premium_slot |-> premium_slot]
ActivateBidsMsg == [kind |-> "ActivateBids", bids_idx |-> None]
RetractBidMsg(bid_idx, amount) == [kind |-> "RetractBid", bid_idx |-> bid_idx, amount |-> amount]
ClaimLiquidationsMsg == [kind |-> "ClaimLiquidations", bids_idx |-> None]
\* Cw20 Send of bLuna to the Astroport router with the two-hop swap.
SwapSendMsg(amount, to) ==
    [kind |-> "Send", contract |-> "astroport_router", amount |-> amount, to |-> to]
\* Cw20 Send of bLuna to the swap wallet, on behalf of `recipient`.
WalletSendMsg(wallet, amount, recipient) ==
    [kind |-> "Send", contract |-> wallet, amount |-> amount, to |-> Some(recipient)]

\* ------------------------------------------------------- withdraw_ust
\* The lock lifted as soon as WITHDRAW_LOCK has passed.
WithdrawLocked_strict(timestamp) == timestamp + WITHDRAW_LOCK > now

\* WITHDRAW_LOCK: the withdrawal is refused while this holds.
WithdrawLocked(timestamp) == timestamp + WITHDRAW_LOCK >= now

\* A record matured only after the instant its lock period ends.
IsMatured_strict(claim) == claim.timestamp + LOCK_PERIOD < now

\* A lock record is matured once its lock period has passed.
IsMatured(claim) == claim.timestamp + LOCK_PERIOD <= now

\* A loop that stops after the first matured record.
Matured_first(list) ==
    IF list = <<>> THEN <<>>
    ELSE IF IsMatured(Head(list)) THEN <<Head(list)>>
    ELSE <<>>

\* The records the unlock loop collects: the longest matured prefix.
RECURSIVE Matured(_)
Matured(list) ==
    IF list = <<>> THEN <<>>
    ELSE IF IsMatured(Head(list)) THEN <<Head(list)>> \o Matured(Tail(list))
    ELSE <<>>

\* The matured records left in the list.
DropPrefix_keep(list, n) == list

\* CLAIM_LIST.remove of the first n keys.
DropPrefix(list, n) == SubSeq(list, n + 1, Len(list))

\* The key claim_liquidation gives a new record.
NewKey(list) == IF list = <<>> THEN 0 ELSE list[Len(list)].key + 1

\* The walk with the comparison item.amount <= usd_balance.
RECURSIVE RetractPage_le(_, _, _, _)
RetractPage_le(res, i, usd_balance, messages) ==
    IF i > Len(res) THEN [usd_balance |-> usd_balance, messages |-> messages]
    ELSE LET item == res[i] IN
         IF item.amount <= usd_balance
         THEN RetractPage_le(res, i + 1, usd_balance - item.amount,
                             Append(messages, RetractBidMsg(item.idx, None)))
         ELSE [usd_balance |-> 0,
               messages |-> Append(messages, RetractBidMsg(item.idx, Some(usd_balance)))]

\* The walk that retracts the whole of the bid that closes the shortfall.
RECURSIVE RetractPage_whole(_, _, _, _)
RetractPage_whole(res, i, usd_balance, messages) ==
    IF i > Len(res) THEN [usd_balance |-> usd_balance, messages |-> messages]
    ELSE LET item == res[i] IN
         IF item.amount < usd_balance
         THEN RetractPage_whole(res, i + 1, usd_balance - item.amount,
                                Append(messages, RetractBidMsg(item.idx, None)))
         ELSE [usd_balance |-> 0,
               messages |-> Append(messages, RetractBidMsg(item.idx, None))]

\* The for loop over one page of bids in the shortfall branch.
RECURSIVE RetractPage(_, _, _, _)
RetractPage(res, i, usd_balance, messages) ==
    IF i > Len(res) THEN [usd_balance |-> usd_balance, messages |-> messages]
    ELSE LET item == res[i] IN
         IF item.amount < usd_balance
         THEN RetractPage(res, i + 1, usd_balance - item.amount,
                          Append(messages, RetractBidMsg(item.idx, None)))
         ELSE [usd_balance |-> 0,
               messages |-> Append(messages, RetractBidMsg(item.idx, Some(usd_balance)))]

\* The page loop of the shortfall branch.
RECURSIVE RetractLoop(_, _, _)
RetractLoop(start_after, usd_balance, messages) ==
    LET res == BidsByUser(start_after, Limit)
        r == RetractPage(res, 1, usd_balance, messages)
    IN  IF r.usd_balance = 0 \/ Len(res) < Limit THEN r
        ELSE RetractLoop(res[Len(res)].idx, r.usd_balance, r.messages)

\* The "unlock again" loop: consumes records from the front for b_luna_withdraw.
RECURSIVE UnlockAgain(_, _, _)
UnlockAgain(list, b_luna_withdraw, unlocked_b_luna) ==
    IF list = <<>> THEN [list |-> <<>>, unlocked_b_luna |-> unlocked_b_luna]
    ELSE LET claim == Head(list) IN
         IF b_luna_withdraw >= claim.amount
         THEN IF b_luna_withdraw - claim.amount = 0
              THEN [list |-> Tail(list), unlocked_b_luna |-> unlocked_b_luna + claim.amount]
              ELSE UnlockAgain(Tail(list), b_luna_withdraw - claim.amount,
                               unlocked_b_luna + claim.amount)
         ELSE [list |-> <<[claim EXCEPT !.amount = @ - b_luna_withdraw]>> \o Tail(list),
               unlocked_b_luna |-> unlocked_b_luna + b_luna_withdraw]

\* The branch of withdraw_ust taken when the bids cannot cover the shortfall
\* (usd_balance is what is still missing): the rest is sourced in bLuna.
withdraw_rest_in_b_luna(sender, share, s, messages, usd_balance, withdraw_cap) ==
    LET b_luna_balance == b_luna + BidTotals.b_luna
        covered == (share * (withdraw_cap - usd_balance)) \div withdraw_cap
    IN
    IF s.state.total_supply < covered \/ s.state.total_supply - covered = 0
    THEN Err("Panic", s)
    ELSE
    LET b_luna_withdraw0 == ((b_luna_balance * share * usd_balance) \div withdraw_cap)
                                \div (s.state.total_supply - covered)
        matured == Matured(s.claim_list)
        list1 == DropPrefix(s.claim_list, Len(matured))
        s1 == [s EXCEPT !.claim_list = list1]
    IN
    IF s.state.locked_b_luna < SumAmount(matured) THEN Err("Panic", s1)
    ELSE
    LET locked1 == s.state.locked_b_luna - SumAmount(matured) IN
    IF b_luna < locked1 THEN Err("Panic", s1)
    ELSE
    LET swap_amount == b_luna - locked1
        messages1 == IF swap_amount # 0
                     THEN Append(messages,
                                 SwapSendMsg(Min(swap_amount, b_luna_withdraw0), Some(sender)))
                     ELSE messages
        b_luna_withdraw1 == IF swap_amount # 0
                            THEN (IF swap_amount >= b_luna_withdraw0
                                  THEN 0 ELSE b_luna_withdraw0 - swap_amount)
                            ELSE b_luna_withdraw0
    IN
    IF b_luna_withdraw1 = 0
    THEN Ok([s1 EXCEPT !.state.locked_b_luna = locked1], messages1,
            [share |-> share, amount |-> withdraw_cap])
    ELSE
    LET pending == BidTotals.b_luna
        list2 == Append(list1, [key |-> NewKey(list1), amount |-> pending, timestamp |-> now])
        messages2 == messages1 \o <<ClaimLiquidationsMsg,
                                    WalletSendMsg(s.state.swap_wallet, b_luna_withdraw1, sender)>>
        again == UnlockAgain(list2, b_luna_withdraw1, 0)
        s2 == [s EXCEPT !.claim_list = again.list]
    IN
    IF locked1 + pending < again.unlocked_b_luna THEN Err("Panic", s2)
    ELSE Ok([s2 EXCEPT !.state.locked_b_luna = locked1 + pending - again.unlocked_b_luna],
            messages2, [share |-> share, amount |-> withdraw_cap])

\* The payout rounded up.
WithdrawCap_ceil(total_cap, share, total_supply) ==
    (total_cap * share + total_supply - 1) \div total_supply

\* withdraw_cap = total_cap * share / total_supply.
WithdrawCap(total_cap, share, total_supply) == (total_cap * share) \div total_supply

\* withdraw_ust with a wrapping subtraction in place of checked_sub.
withdraw_ust_unchecked_sub(sender, share) ==
    IF share = 0 THEN Err("Invalidate", Storage)
    ELSE IF last_deposit[sender] # None /\ WithdrawLocked(last_deposit[sender][1])
    THEN Err("Locked", Storage)
    ELSE
    LET s1 == [Storage EXCEPT !.balances[sender] = @ - share]
        total_cap == TotalCap(uusd)
    IN
    IF state.total_supply = 0 \/ state.total_supply < share THEN Err("Panic", s1)
    ELSE
    LET withdraw_cap == WithdrawCap(total_cap, share, state.total_supply)
        s2 == [s1 EXCEPT !.state.total_supply = @ - share]
    IN
    IF uusd >= withdraw_cap
    THEN Ok(s2, <<BankSendMsg(sender, withdraw_cap)>>,
            [share |-> share, amount |-> withdraw_cap])
    ELSE
    LET walk == RetractLoop(0, withdraw_cap - uusd, <<>>)
        messages == Append(walk.messages, BankSendMsg(sender, withdraw_cap))
    IN
    IF walk.usd_balance # 0
    THEN withdraw_rest_in_b_luna(sender, share, s2, messages, walk.usd_balance, withdraw_cap)
    ELSE Ok(s2, messages, [share |-> share, amount |-> withdraw_cap])

withdraw_ust(sender, share) ==
    IF share = 0 THEN Err("Invalidate", Storage)
    ELSE IF last_deposit[sender] # None /\ WithdrawLocked(last_deposit[sender][1])
    THEN Err("Locked", Storage)
    ELSE IF balances[sender] < share THEN Err("Std", Storage)
    ELSE
    LET s1 == [Storage EXCEPT !.balances[sender] = @ - share]
        total_cap == TotalCap(uusd)
    IN
    IF state.total_supply = 0 \/ state.total_supply < share THEN Err("Panic", s1)
    ELSE
    LET withdraw_cap == WithdrawCap(total_cap, share, state.total_supply)
        s2 == [s1 EXCEPT !.state.total_supply = @ - share]
    IN
    IF uusd >= withdraw_cap
    THEN Ok(s2, <<BankSendMsg(sender, withdraw_cap)>>,
            [share |-> share, amount |-> withdraw_cap])
    ELSE
    LET walk == RetractLoop(0, withdraw_cap - uusd, <<>>)
        messages == Append(walk.messages, BankSendMsg(sender, withdraw_cap))
    IN
    IF walk.usd_balance # 0
    THEN withdraw_rest_in_b_luna(sender, share, s2, messages, walk.usd_balance, withdraw_cap)
    ELSE Ok(s2, messages, [share |-> share, amount |-> withdraw_cap])

\* ------------------------------------------------------- the other handlers
\* PERMISSIONS.may_load(address).unwrap_or(Permission { submit_bid: false }).
LoadPermission(perms, address) == perms[address]

\* submit_bid without the check of the idle balance.
submit_bid_unfunded(sender, amount, premium_slot) ==
    IF ~LoadPermission(permissions, sender) THEN Err("Unauthorized", Storage)
    ELSE IF amount # 0
    THEN Ok(Storage, <<SubmitBidMsg(amount, premium_slot)>>,
            [amount |-> amount, premium_slot |-> premium_slot])
    ELSE Err("Insufficient", Storage)

\* submit_bid without the permission gate.
submit_bid_ungated(sender, amount, premium_slot) ==
    IF amount # 0 /\ uusd >= amount
    THEN Ok(Storage, <<SubmitBidMsg(amount, premium_slot)>>,
            [amount |-> amount, premium_slot |-> premium_slot])
    ELSE Err("Insufficient", Storage)

submit_bid(sender, amount, premium_slot) ==
    IF ~LoadPermission(permissions, sender) THEN Err("Unauthorized", Storage)
    ELSE IF amount # 0 /\ uusd >= amount
    THEN Ok(Storage, <<SubmitBidMsg(amount, premium_slot)>>,
            [amount |-> amount, premium_slot |-> premium_slot])
    ELSE Err("Insufficient", Storage)

activate_bid(sender) == Ok(Storage, <<ActivateBidsMsg>>, NoAttrs)

\* claim_liquidation that puts the new record in front of the others.
claim_liquidation_front(sender) ==
    LET b_luna_balance == BidTotals.b_luna IN
    IF b_luna_balance = 0 THEN Err("Insufficient", Storage)
    ELSE LET record == [key |-> NewKey(claim_list), amount |-> b_luna_balance,
                        timestamp |-> now]
             s1 == [Storage EXCEPT !.claim_list = <<record>> \o @]
             s2 == [s1 EXCEPT !.state.locked_b_luna = @ + b_luna_balance]
         IN  Ok(s2, <<ClaimLiquidationsMsg>>, [amount |-> b_luna_balance])

\* claim_liquidation without the check for an empty claim.
claim_liquidation_empty_claim(sender) ==
    LET b_luna_balance == BidTotals.b_luna
        record == [key |-> NewKey(claim_list), amount |-> b_luna_balance,
                   timestamp |-> now]
        s1 == [Storage EXCEPT !.claim_list = Append(@, record)]
        s2 == [s1 EXCEPT !.state.locked_b_luna = @ + b_luna_balance]
    IN  Ok(s2, <<ClaimLiquidationsMsg>>, [amount |-> b_luna_balance])

claim_liquidation(sender) ==
    LET b_luna_balance == BidTotals.b_luna IN
    IF b_luna_balance = 0 THEN Err("Insufficient", Storage)
    ELSE LET record == [key |-> NewKey(claim_list), amount |-> b_luna_balance,
                        timestamp |-> now]
             s1 == [Storage EXCEPT !.claim_list = Append(@, record)]
             s2 == [s1 EXCEPT !.state.locked_b_luna = @ + b_luna_balance]
         IN  Ok(s2, <<ClaimLiquidationsMsg>>, [amount |-> b_luna_balance])

\* transfer_ownership that moves the owner and grants nothing.
transfer_ownership_no_grant(sender, new_owner) ==
    IF state.owner # sender THEN Err("Unauthorized", Storage)
    ELSE LET removed == [permissions EXCEPT ![state.owner] = FALSE]
         IN  Ok([Storage EXCEPT !.permissions = removed, !.state.owner = new_owner],
                <<>>, [to |-> new_owner])

\* transfer_ownership open to every caller.
transfer_ownership_ungated(sender, new_owner) ==
    LET removed == [permissions EXCEPT ![state.owner] = FALSE]
        saved == [removed EXCEPT ![new_owner] = TRUE]
    IN  Ok([Storage EXCEPT !.permissions = saved, !.state.owner = new_owner],
           <<>>, [to |-> new_owner])

transfer_ownership(sender, new_owner) ==
    IF state.owner # sender THEN Err("Unauthorized", Storage)
    ELSE LET removed == [permissions EXCEPT ![state.owner] = FALSE]
             saved == [removed EXCEPT ![new_owner] = TRUE]
         IN  Ok([Storage EXCEPT !.permissions = saved, !.state.owner = new_owner],
                <<>>, [to |-> new_owner])

unlock(sender) ==
    LET matured == Matured(claim_list)
        unlocked_b_luna == SumAmount(matured)
        s1 == [Storage EXCEPT !.claim_list = DropPrefix(@, Len(matured))]
    IN  IF unlocked_b_luna = 0 THEN Err("Insufficient", s1)
        ELSE IF state.locked_b_luna < unlocked_b_luna THEN Err("Panic", s1)
        ELSE Ok([s1 EXCEPT !.state.locked_b_luna = @ - unlocked_b_luna],
                <<>>, [amount |-> unlocked_b_luna])

\* The write of set_permission: what is stored, and under which key.
SetPermissionWrite(perms, sender, address, permission, new_permission) ==
    IF permission = FALSE
    THEN [perms EXCEPT ![sender] = FALSE]
    ELSE [perms EXCEPT ![sender] = permission]

set_permission(sender, address, new_permission) ==
    IF state.owner # sender THEN Err("Unauthorized", Storage)
    ELSE LET permission == LoadPermission(permissions, address) IN
         IF permission = new_permission THEN Err("Invalidate", Storage)
         ELSE Ok([Storage EXCEPT !.permissions =
                      SetPermissionWrite(@, sender, address, permission, new_permission)],
                 <<>>, [to |-> address, submit_bid |-> new_permission])

\* A swap that releases the matured records itself before it swaps.
swap_releasing(sender) ==
    LET matured == Matured(claim_list)
        locked == state.locked_b_luna - SumAmount(matured)
        s1 == [Storage EXCEPT !.claim_list = DropPrefix(@, Len(matured)),
                              !.state.locked_b_luna = locked]
    IN  IF b_luna < locked THEN Err("Panic", s1)
        ELSE IF b_luna - locked = 0 THEN Err("Insufficient", s1)
        ELSE Ok(s1, <<SwapSendMsg(b_luna - locked, None)>>, [amount |-> b_luna - locked])

\* A swap that counts matured records as free before unlock released them.
swap_matured_free(sender) ==
    LET locked == state.locked_b_luna - SumAmount(Matured(claim_list)) IN
    IF b_luna < locked THEN Err("Panic", Storage)
    ELSE IF b_luna - locked = 0 THEN Err("Insufficient", Storage)
    ELSE Ok(Storage, <<SwapSendMsg(b_luna - locked, None)>>, [amount |-> b_luna - locked])

\* The whole bLuna balance swapped.
SwapAmount_all(balance, locked_b_luna) == balance

\* swap_amount of swap: the bLuna balance less the locked part.
SwapAmount(balance, locked_b_luna) == balance - locked_b_luna

swap(sender) ==
    IF b_luna < state.locked_b_luna THEN Err("Panic", Storage)
    ELSE LET swap_amount == SwapAmount(b_luna, state.locked_b_luna) IN
         IF swap_amount = 0 THEN Err("Insufficient", Storage)
         ELSE Ok(Storage, <<SwapSendMsg(swap_amount, None)>>, [amount |-> swap_amount])

\* pause_resume saving the flag whatever it was.
pause_resume_rewrite(sender, pause) ==
    IF state.owner # sender THEN Err("Unauthorized", Storage)
    ELSE Ok([Storage EXCEPT !.state.paused = pause], <<>>, [pause |-> pause])

pause_resume(sender, pause) ==
    IF state.owner # sender THEN Err("Unauthorized", Storage)
    ELSE IF state.paused = pause THEN Err("Invalidate", Storage)
    ELSE Ok([Storage EXCEPT !.state.paused = pause], <<>>, [pause |-> pause])

set_swap_wallet(sender, address) ==
    IF state.owner # sender THEN Err("Unauthorized", Storage)
    ELSE Ok([Storage EXCEPT !.state.swap_wallet = address], <<>>,
            [new_swap_wallet |-> address])

\* ------------------------------------------------------- queries
query_permission(address) == LoadPermission(permissions, address)

query_balance(address) == balances[address]

query_total_cap == TotalCap(uusd)

\* A limit that is the whole balance whatever the bids can pay.
query_withdrawable_limit_balance(address) == balances[address]

query_withdrawable_limit(address) ==
    LET balance == balances[address]
        usd_balance == uusd + BidTotals.usd
        b_luna_balance == b_luna + BidTotals.b_luna
        total_cap == MulPrice(b_luna_balance) + usd_balance
        withdraw_amount == (balance * total_cap) \div state.total_supply
    IN  IF balance = 0 THEN 0
        ELSE IF usd_balance = 0 THEN 0
        ELSE IF withdraw_amount <= usd_balance THEN balance
        ELSE (usd_balance * state.total_supply) \div total_cap

\* A lock queue reported unlockable as soon as it holds a record.
query_unlockable_nonempty == claim_list # <<>>

\* The pagination loop with its early return at the first bid that has
\* liquidated collateral pending.
RECURSIVE ClaimableFrom(_)
ClaimableFrom(start_after) ==
    LET res == BidsByUser(start_after, Limit)
    IN  IF \E i \in 1..Len(res) : res[i].pending_liquidated_collateral # 0 THEN TRUE
        ELSE IF Len(res) < Limit THEN FALSE
        ELSE ClaimableFrom(res[Len(res)].idx)

query_claimable == ClaimableFrom(0)

query_unlockable == claim_list # <<>> /\ IsMatured(Head(claim_list))

\* ------------------------------------------------------- the host
\* The external accounts the outgoing messages act on.
External == [ok |-> TRUE, uusd |-> uusd, b_luna |-> b_luna, bids |-> bids]

Failed(ext) == [ext EXCEPT !.ok = FALSE]

\* The identifier the queue gives the next bid.
NextIdx(bs) == IF bs = <<>> THEN 1 ELSE bs[Len(bs)].idx + 1

\* A bid leaves the queue once nothing of it is left.
LiveBids(bs) ==
    SelectSeq(bs, LAMBDA b : b.amount # 0 \/ b.pending_liquidated_collateral # 0)

BidAt(bs, idx) == CHOOSE i \in 1..Len(bs) : bs[i].idx = idx

\* One outgoing message executed by its addressee.
ExecMsg(ext, m) ==
    IF m.kind = "BankSend"
    THEN IF ext.uusd >= m.amount THEN [ext EXCEPT !.uusd = @ - m.amount] ELSE Failed(ext)
    ELSE IF m.kind = "SubmitBid"
    THEN IF ext.uusd >= m.funds
         THEN [ext EXCEPT !.uusd = @ - m.funds,
                          !.bids = Append(@, [idx |-> NextIdx(ext.bids), amount |-> m.funds,
                                              pending_liquidated_collateral |-> 0])]
         ELSE Failed(ext)
    ELSE IF m.kind = "ActivateBids" THEN ext
    ELSE IF m.kind = "RetractBid"
    THEN IF \E i \in 1..Len(ext.bids) : ext.bids[i].idx = m.bid_idx
         THEN LET i == BidAt(ext.bids, m.bid_idx)
                  amount == IF m.amount = None THEN ext.bids[i].amount ELSE m.amount[1]
              IN  IF amount <= ext.bids[i].amount
                  THEN [ext EXCEPT !.uusd = @ + amount,
                                   !.bids = LiveBids([@ EXCEPT ![i].amount = @ - amount])]
                  ELSE Failed(ext)
         ELSE Failed(ext)
    ELSE IF m.kind = "ClaimLiquidations"
    THEN [ext EXCEPT !.b_luna = @ + SumPending(ext.bids),
                     !.bids = LiveBids([i \in 1..Len(@) |->
                                           [@[i] EXCEPT !.pending_liquidated_collateral = 0]])]
    ELSE \* "Send": bLuna leaves the vault; a swap without recipient pays the vault.
         IF m.amount # 0 /\ ext.b_luna >= m.amount
         THEN [ext EXCEPT !.b_luna = @ - m.amount,
                          !.uusd = IF m.contract = "astroport_router" /\ m.to = None
                                   THEN @ + MulPrice(m.amount) ELSE @]
         ELSE Failed(ext)

\* The outgoing messages executed in order; the first failure fails them all.
RECURSIVE ExecAll(_, _)
ExecAll(msgs, ext) ==
    IF msgs = <<>> \/ ~ext.ok THEN ext
    ELSE ExecAll(Tail(msgs), ExecMsg(ext, Head(msgs)))

\* Everything the vault is worth in the model, for the bound on funds.
Holdings(ext) == ext.uusd + SumAmount(ext.bids) + ext.b_luna + SumPending(ext.bids)

WithinBounds(ext) ==
    /\ Holdings(ext) <= MaxFunds
    /\ \A i \in 1..Len(ext.bids) : ext.bids[i].idx <= MaxBidIdx

\* What the host makes of a handler's result r: the external accounts after
\* the outgoing messages, or a failure.  `funds` is the uusd the bank moved
\* to the vault with the message.
Host(funds, r) ==
    IF r.res = "Ok"
    THEN ExecAll(r.msgs, [External EXCEPT !.uusd = @ + funds])
    ELSE Failed(External)

\* The invocation takes effect: the handler succeeded and so did every message.
Committed(funds, r) == Host(funds, r).ok

\* One invocation: the handler's result r, then the host.  A failed
\* invocation leaves no trace: storage, accounts and attached funds are as
\* before.
Effect(funds, r) ==
    LET ext == Host(funds, r)
    IN  /\ ext.ok => WithinBounds(ext) /\ r.store.state.total_supply <= MaxSupply
        /\ IF ext.ok
           THEN /\ state' = r.store.state
                /\ balances' = r.store.balances
                /\ permissions' = r.store.permissions
                /\ last_deposit' = r.store.last_deposit
                /\ claim_list' = r.store.claim_list
                /\ uusd' = ext.uusd
                /\ b_luna' = ext.b_luna
                /\ bids' = ext.bids
           ELSE UNCHANGED <<state, balances, permissions, last_deposit, claim_list,
                            uusd, b_luna, bids>>
        /\ UNCHANGED <<price, now>>

Invoke(funds, r) == Effect(funds, r) /\ UNCHANGED trip

\* ------------------------------------------------------- actions
\* The funds a Deposit may carry.
Coins(denom, amount) == [denom |-> denom, amount |-> amount]

FundsChoices ==
    {<<>>, <<Coins("uusd", 1), Coins("uluna", 1)>>}
        \cup {<<Coins(d, x)>> : d \in {"uusd", "uluna"}, x \in 0..MaxFunds}

AttachedUusd(funds) ==
    IF Len(funds) >= 1 /\ funds[1].denom = "uusd" THEN funds[1].amount ELSE 0

\* instantiate that makes the sender the owner.
instantiate_sender_owner(sender, owner, swap_wallet) ==
    Ok([state |-> [owner |-> sender, total_supply |-> 0, locked_b_luna |-> 0,
                   swap_wallet |-> swap_wallet, paused |-> FALSE],
        balances |-> [a \in Addr |-> 0],
        permissions |-> [a \in Addr |-> a = sender],
        last_deposit |-> [a \in Addr |-> None],
        claim_list |-> <<>>],
       <<>>, [owner |-> sender, swap_wallet |-> swap_wallet])

\* instantiate: the storage of the new vault, written from the message; the
\* maps of balances, last deposits and lock records start empty.
instantiate(sender, owner, swap_wallet) ==
    Ok([state |-> [owner |-> owner, total_supply |-> 0, locked_b_luna |-> 0,
                   swap_wallet |-> swap_wallet, paused |-> FALSE],
        balances |-> [a \in Addr |-> 0],
        permissions |-> [a \in Addr |-> a = owner],
        last_deposit |-> [a \in Addr |-> None],
        claim_list |-> <<>>],
       <<>>, [owner |-> owner, swap_wallet |-> swap_wallet])

\* The storage is the one some sender's instantiate message left.
Instantiate(owner, swap_wallet) ==
    \E sender \in Addr :
        LET s == instantiate(sender, owner, swap_wallet).store
        IN  /\ state = s.state
            /\ balances = s.balances
            /\ permissions = s.permissions
            /\ last_deposit = s.last_deposit
            /\ claim_list = s.claim_list

Init ==
    /\ \E owner \in Addr, swap_wallet \in Wallets : Instantiate(owner, swap_wallet)
    /\ uusd = 0
    /\ b_luna = 0
    /\ bids = <<>>
    /\ price \in Prices
    /\ now = 0
    /\ trip = None

Deposit ==
    \E sender \in Addr, funds \in FundsChoices :
        Invoke(AttachedUusd(funds),
               deposit(sender, funds))

WithdrawUst ==
    \E sender \in Addr, share \in 0..MaxSupply :
        Invoke(0, withdraw_ust(sender, share))

SubmitBid ==
    \E sender \in Addr, amount \in 0..MaxFunds, premium_slot \in Slots :
        Invoke(0, submit_bid(sender, amount, premium_slot))

ActivateBid ==
    \E sender \in Addr : Invoke(0, activate_bid(sender))

ClaimLiquidation ==
    \E sender \in Addr :
        Invoke(0, claim_liquidation(sender))

TransferOwnership ==
    \E sender \in Addr, new_owner \in Addr :
        Invoke(0, transfer_ownership(sender, new_owner))

Unlock ==
    \E sender \in Addr : Invoke(0, unlock(sender))

SetPermission ==
    \E sender \in Addr, address \in Addr, new_permission \in BOOLEAN :
        Invoke(0, set_permission(sender, address, new_permission))

Swap ==
    \E sender \in Addr : Invoke(0, swap(sender))

Pause ==
    \E sender \in Addr, pause \in BOOLEAN :
        Invoke(0, pause_resume(sender, pause))

SetSwapWallet ==
    \E sender \in Addr, address \in Wallets :
        Invoke(0, set_swap_wallet(sender, address))

\* Block time advances.
Tick ==
    /\ now < MaxTime
    /\ now' = now + 1
    /\ UNCHANGED <<state, balances, permissions, last_deposit, claim_list,
                   uusd, b_luna, bids, price, trip>>

\* The queue liquidates: k uusd of a bid become k bLuna pending for the vault.
Liquidate ==
    \E i \in 1..Len(bids) : \E k \in 1..bids[i].amount :
        /\ bids' = [bids EXCEPT ![i].amount = @ - k,
                                ![i].pending_liquidated_collateral = @ + k]
        /\ UNCHANGED <<state, balances, permissions, last_deposit, claim_list,
                       uusd, b_luna, price, now, trip>>

\* The oracle reports another rate.
SetPrice ==
    /\ price' \in Prices \ {price}
    /\ UNCHANGED <<state, balances, permissions, last_deposit, claim_list,
                   uusd, b_luna, bids, now, trip>>

Next ==
    \/ Deposit
    \/ WithdrawUst
    \/ SubmitBid
    \/ ActivateBid
    \/ ClaimLiquidation
    \/ TransferOwnership
    \/ Unlock
    \/ SetPermission
    \/ Swap
    \/ Pause
    \/ SetSwapWallet
    \/ Tick
    \/ Liquidate
    \/ SetPrice

Spec == Init /\ [][Next]_vars

\* ------------------------------------------------------- properties
\* C1: in every reachable state, whatever invocations succeeded or failed
\* before, the share balances of all addresses add up to total_supply.
C1_BalancesSumToSupply == SumOver(balances, Addr) = state.total_supply

\* Both addresses hold shares, which the vault's value no longer matches.
C1_Witness ==
    /\ balances["a1"] > 0
    /\ balances["a2"] > 0
    /\ TotalCap(uusd) # state.total_supply

\* C2: in every reachable state the amounts of the lock records in the
\* claim list add up to locked_b_luna.
C2_LocksSumToLocked == SumAmount(claim_list) = state.locked_b_luna

\* Two lock records are held, one of them already matured.
C2_Witness ==
    /\ Len(claim_list) = 2
    /\ state.locked_b_luna = 2
    /\ query_unlockable

\* C3: between invocations locked_b_luna is at most the vault's bLuna
\* balance, so the subtraction balance - locked_b_luna of swap never
\* underflows.
C3_LockedWithinBalance ==
    /\ state.locked_b_luna <= b_luna
    /\ \A sender \in Addr : swap(sender).res # "Panic"

\* Part of the bLuna balance is locked and swap sends the free part.
C3_Witness ==
    /\ state.locked_b_luna > 0
    /\ \E sender \in Addr :
          /\ swap(sender).res = "Ok"
          /\ swap(sender).msgs = <<SwapSendMsg(b_luna - state.locked_b_luna, None)>>

\* C4: a successful deposit of X while total_supply is zero mints exactly X
\* shares: total_supply and the depositor's balance both grow by X,
\* whatever the total cap, the rate and the bids are.
C4_BootstrapMintsAmount ==
    \A sender \in Addr, funds \in FundsChoices :
        LET r == deposit(sender, funds)
            X == funds[1].amount
        IN  (state.total_supply = 0 /\ r.res = "Ok") =>
                /\ r.store.state.total_supply = state.total_supply + X
                /\ r.store.balances[sender] = balances[sender] + X
                /\ r.attrs.share = X

\* A deposit succeeds while there is no supply and the vault is worth something.
C4_Witness ==
    /\ state.total_supply = 0
    /\ TotalCap(uusd) > 0
    /\ \E sender \in Addr, funds \in FundsChoices :
          /\ deposit(sender, funds).res = "Ok"
          /\ Committed(AttachedUusd(funds), deposit(sender, funds))

\* C5: a successful deposit of X while total_supply S > 0 mints exactly
\* floor(X * S / C) shares, C being the total cap with the idle uusd balance
\* taken without the funds just received; with S = 100 and C = 200, X = 50
\* mints 25 and X = 51 mints 25.
C5_ProportionalMint ==
    /\ DepositShare(50, 100, 200) = 25
    /\ DepositShare(51, 100, 200) = 25
    /\ \A sender \in Addr, funds \in FundsChoices :
          LET r == deposit(sender, funds)
              X == funds[1].amount
              S == state.total_supply
              C == TotalCap(uusd)
          IN  (S > 0 /\ r.res = "Ok") =>
                  /\ r.store.state.total_supply = S + (X * S) \div C
                  /\ r.store.balances[sender] = balances[sender] + (X * S) \div C
                  /\ r.attrs.share = (X * S) \div C

\* A deposit succeeds at a ratio that does not divide evenly, with idle uusd
\* in the vault.
C5_Witness ==
    /\ state.total_supply > 0
    /\ uusd > 0
    /\ \E sender \in Addr, funds \in FundsChoices :
          /\ deposit(sender, funds).res = "Ok"
          /\ (funds[1].amount * state.total_supply) % TotalCap(uusd) # 0

\* The payout of a withdrawal of `share`, from the total cap and the
\* total_supply before the burn.
Payout(share) == (TotalCap(uusd) * share) \div state.total_supply

\* C6: a withdrawal of S shares whose payout floor(total_cap * S /
\* total_supply) the idle uusd balance covers emits exactly one message, the
\* transfer of the payout to the caller, emits no RetractBid, and reduces
\* total_supply and the caller's balance by exactly S.
C6_DirectWithdrawal ==
    \A sender \in Addr, share \in 0..MaxSupply :
        LET r == withdraw_ust(sender, share)
        IN  (share # 0 /\ r.res # "Locked" /\ balances[sender] >= share
                /\ uusd >= Payout(share)) =>
                /\ r.res = "Ok"
                /\ r.msgs = <<BankSendMsg(sender, Payout(share))>>
                /\ \A i \in 1..Len(r.msgs) : r.msgs[i].kind # "RetractBid"
                /\ r.store.state.total_supply = state.total_supply - share
                /\ r.store.balances[sender] = balances[sender] - share

\* Part of a balance is withdrawn and paid from the idle uusd while bids are open.
C6_Witness ==
    /\ bids # <<>>
    /\ \E sender \in Addr, share \in 1..MaxSupply :
          /\ share < balances[sender]
          /\ withdraw_ust(sender, share).res = "Ok"
          /\ uusd >= Payout(share)
          /\ Payout(share) > 0
          /\ Committed(0, withdraw_ust(sender, share))

\* The retracts the walk is to emit for the bids bs, ascending by idx, and a
\* shortfall.
RECURSIVE RetractsFor(_, _)
RetractsFor(bs, shortfall) ==
    IF bs = <<>> THEN <<>>
    ELSE IF Head(bs).amount < shortfall
         THEN <<RetractBidMsg(Head(bs).idx, None)>>
                  \o RetractsFor(Tail(bs), shortfall - Head(bs).amount)
         ELSE <<RetractBidMsg(Head(bs).idx, Some(shortfall))>>

\* The bids of the example: (1, 30) and (2, 40).
ExampleBids ==
    <<[idx |-> 1, amount |-> 30, pending_liquidated_collateral |-> 0],
      [idx |-> 2, amount |-> 40, pending_liquidated_collateral |-> 0]>>

\* C7: when the idle uusd balance is below the payout, the withdrawal walks
\* the bids by ascending idx, retracts in full (amount None) every bid whose
\* amount is less than the shortfall still open, retracts exactly the open
\* shortfall from the first bid whose amount is at least that and stops, and
\* lists the payout transfer after every retract; bids (1, 30), (2, 40)
\* with a shortfall of 50 give retract(1, None), retract(2, 20).
C7_ShortfallOrdering ==
    /\ RetractPage(ExampleBids, 1, 50, <<>>).messages
           = <<RetractBidMsg(1, None), RetractBidMsg(2, Some(20))>>
    /\ \A sender \in Addr, share \in 0..MaxSupply :
          LET r == withdraw_ust(sender, share)
              expected == RetractsFor(bids, Payout(share) - uusd)
              n == Len(expected)
          IN  (r.res = "Ok" /\ uusd < Payout(share)) =>
                  /\ Len(r.msgs) > n
                  /\ SubSeq(r.msgs, 1, n) = expected
                  /\ r.msgs[n + 1] = BankSendMsg(sender, Payout(share))
                  /\ \A i \in (n + 2)..Len(r.msgs) : r.msgs[i].kind # "RetractBid"

\* A withdrawal retracts one bid in full, the next in part, then pays.
C7_Witness ==
    \E sender \in Addr, share \in 1..MaxSupply :
        LET r == withdraw_ust(sender, share)
        IN  /\ r.res = "Ok"
            /\ Len(r.msgs) = 3
            /\ r.msgs[1] = RetractBidMsg(bids[1].idx, None)
            /\ r.msgs[2] = RetractBidMsg(bids[2].idx, Some(bids[2].amount))
            /\ r.msgs[3] = BankSendMsg(sender, Payout(share))
            /\ Committed(0, r)

\* C8: a withdrawal whose shortfall (payout less idle uusd) exceeds the sum
\* of all bid amounts fails as Insufficient, changes no state and emits no
\* message.
C8_ExhaustionFailsInsufficient ==
    \A sender \in Addr, share \in 0..MaxSupply :
        LET r == withdraw_ust(sender, share)
        IN  (share # 0 /\ r.res # "Locked" /\ balances[sender] >= share
                /\ Payout(share) > uusd + SumAmount(bids)) =>
                /\ r.res = "Insufficient"
                /\ r.msgs = <<>>
                /\ ~Committed(0, r)

\* C9: after a successful SetPermission(address, p) by the owner the stored
\* permission of address is p, and the permission of every other address,
\* the caller's included, is as before.
C9_SetPermissionStoresForTarget ==
    \A sender \in Addr, address \in Addr, p \in BOOLEAN :
        LET r == set_permission(sender, address, p)
        IN  r.res = "Ok" =>
                /\ LoadPermission(r.store.permissions, address) = p
                /\ \A other \in Addr \ {address} :
                      LoadPermission(r.store.permissions, other)
                          = LoadPermission(permissions, other)

\* C10 as claimed: a withdrawal is refused as Locked exactly while
\* now < last deposit + WITHDRAW_LOCK, so not at now = last deposit +
\* WITHDRAW_LOCK, and never without a recorded deposit.
C10_LockedBeforeCooldownEnd ==
    \A sender \in Addr, share \in 1..MaxSupply :
        (withdraw_ust(sender, share).res = "Locked")
            <=> /\ last_deposit[sender] # None
                /\ now < last_deposit[sender][1] + WITHDRAW_LOCK

\* C10 as amended: a deposit records the block time, and a withdrawal of a
\* non-zero share is refused as Locked exactly while
\* now <= last deposit + WITHDRAW_LOCK, so still at
\* now = last deposit + WITHDRAW_LOCK, and never without a recorded deposit.
C10_LockedThroughCooldownEnd ==
    /\ \A sender \in Addr, funds \in FundsChoices :
          deposit(sender, funds).res = "Ok" =>
              deposit(sender, funds).store.last_deposit[sender] = Some(now)
    /\ \A sender \in Addr, share \in 1..MaxSupply :
          (withdraw_ust(sender, share).res = "Locked")
              <=> /\ last_deposit[sender] # None
                  /\ now <= last_deposit[sender][1] + WITHDRAW_LOCK

\* A holder withdraws at exactly last deposit + WITHDRAW_LOCK and is refused.
C10_Witness ==
    \E sender \in Addr :
        /\ last_deposit[sender] # None
        /\ now = last_deposit[sender][1] + WITHDRAW_LOCK
        /\ balances[sender] >= 1
        /\ withdraw_ust(sender, 1).res = "Locked"

\* C11: a lock record is matured exactly when timestamp + LOCK_PERIOD <= now:
\* unlock releases just the records for which this holds (one at
\* timestamp + LOCK_PERIOD = now is released, one at now + 1 is kept) and
\* subtracts their amounts, and query_unlockable reports whether the first
\* record is such a record.
C11_MaturityBoundary ==
    /\ query_unlockable
           <=> (claim_list # <<>> /\ claim_list[1].timestamp + LOCK_PERIOD <= now)
    /\ \A sender \in Addr :
          LET r == unlock(sender)
              n == Len(claim_list) - Len(r.store.claim_list)
          IN  /\ r.store.claim_list = SubSeq(claim_list, n + 1, Len(claim_list))
              /\ \A i \in 1..Len(claim_list) :
                    (i <= n) <=> (claim_list[i].timestamp + LOCK_PERIOD <= now)
              /\ (n > 0) =>
                    /\ r.res = "Ok"
                    /\ r.store.state.locked_b_luna
                           = state.locked_b_luna - SumAmount(SubSeq(claim_list, 1, n))
              /\ (n = 0) => r.res = "Insufficient"

\* Of two records the first ends its lock period now and is released, the
\* second ends it one time unit later and is kept.
C11_Witness ==
    /\ Len(claim_list) = 2
    /\ claim_list[1].timestamp + LOCK_PERIOD = now
    /\ claim_list[2].timestamp + LOCK_PERIOD = now + 1
    /\ \E sender \in Addr :
          /\ unlock(sender).res = "Ok"
          /\ unlock(sender).store.claim_list = <<claim_list[2]>>
          /\ Committed(0, unlock(sender))

\* Every invocation a caller can make in the current state: the uusd that
\* comes with it and the handler's result.
Invocations ==
    {[funds |-> AttachedUusd(f), r |-> deposit(s, f)] : s \in Addr, f \in FundsChoices}
    \cup {[funds |-> 0, r |-> withdraw_ust(s, x)] : s \in Addr, x \in 0..MaxSupply}
    \cup {[funds |-> 0, r |-> submit_bid(s, x, p)] : s \in Addr, x \in 0..MaxFunds, p \in Slots}
    \cup {[funds |-> 0, r |-> activate_bid(s)] : s \in Addr}
    \cup {[funds |-> 0, r |-> claim_liquidation(s)] : s \in Addr}
    \cup {[funds |-> 0, r |-> transfer_ownership(s, a)] : s \in Addr, a \in Addr}
    \cup {[funds |-> 0, r |-> unlock(s)] : s \in Addr}
    \cup {[funds |-> 0, r |-> set_permission(s, a, p)] : s \in Addr, a \in Addr, p \in BOOLEAN}
    \cup {[funds |-> 0, r |-> swap(s)] : s \in Addr}
    \cup {[funds |-> 0, r |-> pause_resume(s, p)] : s \in Addr, p \in BOOLEAN}
    \cup {[funds |-> 0, r |-> set_swap_wallet(s, a)] : s \in Addr, a \in Wallets}

\* The storage an invocation leaves behind.
StorageAfter(funds, r) == IF Committed(funds, r) THEN r.store ELSE Storage

\* The funds of a deposit pass the checks on the attached coins.
ValidFunds(funds) == Len(funds) = 1 /\ funds[1].denom = "uusd" /\ funds[1].amount # 0

\* C12: an invocation that returns an error leaves balances, total_supply,
\* last deposits, the claim list, locked_b_luna, permissions, owner and paused
\* as they were and emits no message, although deposit has recorded the
\* last deposit, withdraw_ust has burnt the balance and unlock has removed
\* records before they fail.
C12_ErrorsLeaveNoTrace ==
    /\ \A i \in Invocations :
          i.r.res # "Ok" => (i.r.msgs = <<>> /\ StorageAfter(i.funds, i.r) = Storage)
    /\ \A sender \in Addr, funds \in FundsChoices :
          LET r == deposit(sender, funds)
          IN  (ValidFunds(funds) /\ ~state.paused /\ state.total_supply # 0
                  /\ TotalCap(uusd) = 0) =>
                  /\ r.store.last_deposit[sender] = Some(now)
                  /\ r.msgs = <<>>
                  /\ StorageAfter(AttachedUusd(funds), r) = Storage
    /\ \A sender \in Addr, share \in 1..MaxSupply :
          LET r == withdraw_ust(sender, share)
          IN  (r.res # "Locked" /\ balances[sender] < share) =>
                  (r.msgs = <<>> /\ StorageAfter(0, r) = Storage)
    /\ \A sender \in Addr :
          SumAmount(Matured(claim_list)) = 0 =>
              (unlock(sender).msgs = <<>> /\ StorageAfter(0, unlock(sender)) = Storage)

\* A deposit has written the sender's last deposit and then fails on a total
\* cap of zero against a supply that is not zero.
C12_Witness ==
    \E sender \in Addr, funds \in FundsChoices :
        /\ deposit(sender, funds).res = "DivideByZeroError"
        /\ deposit(sender, funds).store.last_deposit # last_deposit
        /\ StorageAfter(AttachedUusd(funds), deposit(sender, funds)) = Storage

\* C13: submit_bid from an address whose stored permission is absent or
\* false fails as Unauthorized and emits no message; the owner holds the
\* permission from instantiation on, and a permitted caller's bid of a
\* positive amount within the idle uusd balance succeeds with one SubmitBid
\* message carrying the amount.
C13_SubmitBidGate ==
    /\ Instantiate(state.owner, state.swap_wallet)
           => LoadPermission(permissions, state.owner)
    /\ \A sender \in Addr, amount \in 0..MaxFunds, premium_slot \in Slots :
          LET r == submit_bid(sender, amount, premium_slot)
          IN  /\ ~LoadPermission(permissions, sender) =>
                    (r.res = "Unauthorized" /\ r.msgs = <<>> /\ ~Committed(0, r))
              /\ (LoadPermission(permissions, sender) /\ amount # 0 /\ amount <= uusd) =>
                    /\ r.res = "Ok"
                    /\ r.msgs = <<SubmitBidMsg(amount, premium_slot)>>
                    /\ r.store = Storage

\* The owner, whose permission is the one instantiation saved, bids the
\* idle balance, and the other address is refused.
C13_Witness ==
    /\ uusd > 0
    /\ permissions = [a \in Addr |-> a = state.owner]
    /\ \E premium_slot \in Slots :
          /\ submit_bid(state.owner, uusd, premium_slot).res = "Ok"
          /\ Committed(0, submit_bid(state.owner, uusd, premium_slot))
          /\ \E sender \in Addr \ {state.owner} :
                submit_bid(sender, uusd, premium_slot).res = "Unauthorized"

\* What the owner-only handlers answer a caller.
OwnerOnly(sender) ==
    {transfer_ownership(sender, a) : a \in Addr}
    \cup {set_permission(sender, a, p) : a \in Addr, p \in BOOLEAN}
    \cup {pause_resume(sender, p) : p \in BOOLEAN}
    \cup {set_swap_wallet(sender, a) : a \in Wallets}

\* Every owner-only handler refuses every caller but the owner.
NonOwnerRefused ==
    \A sender \in Addr \ {state.owner} : \A r \in OwnerOnly(sender) :
        r.res = "Unauthorized" /\ r.msgs = <<>> /\ StorageAfter(0, r) = Storage

\* C14: transfer_ownership, set_permission, pause_resume and set_swap_wallet
\* called by anyone but the current owner fail as Unauthorized and change no
\* state, and over any sequence of operations the owner changes only by a
\* successful transfer_ownership of the owner of the moment.
C14_OwnerOnly ==
    [][/\ NonOwnerRefused
       /\ state'.owner # state.owner =>
             \E new_owner \in Addr :
                 LET r == transfer_ownership(state.owner, new_owner)
                 IN  /\ r.res = "Ok"
                     /\ state' = r.store.state
                     /\ permissions' = r.store.permissions
                     /\ state'.owner = new_owner]_vars

\* The vault is paused, the other address is refused all four operations,
\* and the owner hands the vault over to it.
C14_Witness ==
    /\ state.paused
    /\ NonOwnerRefused
    /\ \E new_owner \in Addr \ {state.owner} :
          /\ transfer_ownership(state.owner, new_owner).res = "Ok"
          /\ StorageAfter(0, transfer_ownership(state.owner, new_owner)).state.owner
                 = new_owner

\* C15: pause_resume(b) by the owner while paused is already b, and
\* set_permission(address, p) by the owner while the permission of address is
\* already p, fail as Invalidate and write nothing.
C15_RedundantToggleRefused ==
    /\ \A pause \in BOOLEAN :
          LET r == pause_resume(state.owner, pause)
          IN  state.paused = pause =>
                  (r.res = "Invalidate" /\ r.store = Storage /\ r.msgs = <<>>
                      /\ StorageAfter(0, r) = Storage)
    /\ \A address \in Addr, p \in BOOLEAN :
          LET r == set_permission(state.owner, address, p)
          IN  LoadPermission(permissions, address) = p =>
                  (r.res = "Invalidate" /\ r.store = Storage /\ r.msgs = <<>>
                      /\ StorageAfter(0, r) = Storage)

\* The paused vault is paused again, and a permission held is granted again.
C15_Witness ==
    /\ state.paused
    /\ pause_resume(state.owner, TRUE).res = "Invalidate"
    /\ \E address \in Addr :
          /\ LoadPermission(permissions, address)
          /\ set_permission(state.owner, address, TRUE).res = "Invalidate"

\* Only the paused flag differs between this state and the next.
PausedFlipped ==
    /\ state' = [state EXCEPT !.paused = ~state.paused]
    /\ UNCHANGED <<balances, permissions, last_deposit, claim_list,
                   uusd, b_luna, bids, price, now>>

\* C16: of two states that differ only in the paused flag, the paused one
\* refuses every deposit with valid funds as Paused and mints nothing, and
\* withdraw_ust gives in both the same result, the same messages and the
\* same writes: what it does never depends on the flag.
C16_PauseGatesDepositOnly ==
    [][PausedFlipped =>
          /\ state.paused =>
                \A sender \in Addr, funds \in FundsChoices :
                    LET r == deposit(sender, funds)
                    IN  ValidFunds(funds) =>
                            /\ r.res = "Paused"
                            /\ StorageAfter(AttachedUusd(funds), r) = Storage
          /\ \A sender \in Addr, share \in 0..MaxSupply :
                LET r == withdraw_ust(sender, share)
                    q == withdraw_ust(sender, share)'
                IN  /\ q.res = r.res
                    /\ q.msgs = r.msgs
                    /\ q.attrs = r.attrs
                    /\ q.store = [r.store EXCEPT !.state.paused = ~state.paused]]_vars

\* In the paused vault a deposit is refused as Paused while a withdrawal
\* pays out.
C16_Witness ==
    /\ state.paused
    /\ \E sender \in Addr, funds \in FundsChoices :
          ValidFunds(funds) /\ deposit(sender, funds).res = "Paused"
    /\ \E sender \in Addr, share \in 1..MaxSupply :
          /\ withdraw_ust(sender, share).res = "Ok"
          /\ withdraw_ust(sender, share).attrs.amount > 0
          /\ Committed(0, withdraw_ust(sender, share))

\* C17: a deposit of valid funds into the unpaused vault whose supply is
\* positive while its total cap before the deposit is zero fails with the
\* divide-by-zero error; nothing is minted, and total_supply, the
\* depositor's balance and the depositor's last deposit time stay as they
\* were.
C17_ZeroCapDepositFails ==
    \A sender \in Addr, funds \in FundsChoices :
        LET r == deposit(sender, funds)
            after == StorageAfter(AttachedUusd(funds), r)
        IN  (/\ ValidFunds(funds)
             /\ ~state.paused
             /\ state.total_supply > 0
             /\ TotalCap(uusd) = 0) =>
                /\ r.res = "DivideByZeroError"
                /\ r.msgs = <<>>
                /\ after.state.total_supply = state.total_supply
                /\ after.balances[sender] = balances[sender]
                /\ after.last_deposit[sender] = last_deposit[sender]
                /\ after = Storage

\* Shares are outstanding while the vault is worth nothing, and a deposit
\* by an address that never deposited fails with the divide-by-zero error.
C17_Witness ==
    /\ ~state.paused
    /\ state.total_supply > 0
    /\ TotalCap(uusd) = 0
    /\ \E sender \in Addr, funds \in FundsChoices :
          /\ ValidFunds(funds)
          /\ last_deposit[sender] = None
          /\ deposit(sender, funds).res = "DivideByZeroError"

\* C18: a deposit whose funds are not exactly one coin, or whose coin is not
\* uusd, or whose amount is zero is rejected as Invalidate, paused or not,
\* before anything is written: no message, no write, no state change.
C18_InvalidFundsRejected ==
    \A sender \in Addr, funds \in FundsChoices :
        LET r == deposit(sender, funds)
        IN  (Len(funds) # 1 \/ funds[1].denom # "uusd" \/ funds[1].amount = 0) =>
                /\ r.res = "Invalidate"
                /\ r.msgs = <<>>
                /\ r.store = Storage
                /\ StorageAfter(AttachedUusd(funds), r) = Storage

\* In a funded, paused vault each kind of invalid funds is refused as
\* Invalidate: no coin, two coins, a coin of another denom, a zero amount.
C18_Witness ==
    /\ state.paused
    /\ state.total_supply > 0
    /\ \E sender \in Addr :
          /\ deposit(sender, <<>>).res = "Invalidate"
          /\ deposit(sender, <<Coins("uusd", 1), Coins("uluna", 1)>>).res = "Invalidate"
          /\ deposit(sender, <<Coins("uluna", 1)>>).res = "Invalidate"
          /\ deposit(sender, <<Coins("uusd", 0)>>).res = "Invalidate"

\* C19: withdraw_ust(share) is rejected, with no write, no message and no
\* state change, when share is zero (as Invalidate) or exceeds the caller's
\* balance (as Locked inside the caller's cooldown, as the checked_sub
\* error otherwise); so no balance and no total_supply is ever negative.
C19_OverdrawRejected ==
    /\ \A sender \in Addr, share \in 0..MaxSupply + 1 :
          LET r == withdraw_ust(sender, share)
          IN  (share = 0 \/ share > balances[sender]) =>
                  /\ r.res \in {"Invalidate", "Locked", "Std"}
                  /\ share = 0 => r.res = "Invalidate"
                  /\ r.msgs = <<>>
                  /\ r.store = Storage
                  /\ StorageAfter(0, r) = Storage
    /\ \A sender \in Addr, share \in 0..MaxSupply + 1 :
          LET after == StorageAfter(0, withdraw_ust(sender, share))
          IN  after.balances[sender] >= 0 /\ after.state.total_supply >= 0
    /\ \A a \in Addr : balances[a] >= 0
    /\ state.total_supply >= 0

\* A holder outside the cooldown asks for more shares than the holder has
\* while the supply would cover them, and is refused by checked_sub; a
\* request for zero shares is refused as Invalidate.
C19_Witness ==
    \E sender \in Addr, share \in 1..MaxSupply :
        /\ balances[sender] > 0
        /\ share > balances[sender]
        /\ share <= state.total_supply
        /\ withdraw_ust(sender, share).res = "Std"
        /\ withdraw_ust(sender, 0).res = "Invalidate"
        /\ withdraw_ust(sender, balances[sender]).res = "Ok"

\* C20: with P the pending liquidated collateral summed over all of the
\* vault's bids, claim_liquidation by any address fails as Insufficient and
\* changes nothing when P is zero; otherwise it succeeds, appends exactly
\* one record (amount P, timestamp now) behind the records already there,
\* adds exactly P to locked_b_luna, changes nothing else and emits exactly
\* one claim-all message.
C20_ClaimLiquidation ==
    \A sender \in Addr :
        LET P == SumPending(bids)
            r == claim_liquidation(sender)
        IN  /\ P = 0 =>
                  /\ r.res = "Insufficient"
                  /\ r.msgs = <<>>
                  /\ r.store = Storage
                  /\ StorageAfter(0, r) = Storage
            /\ P # 0 =>
                  /\ r.res = "Ok"
                  /\ Len(r.store.claim_list) = Len(claim_list) + 1
                  /\ SubSeq(r.store.claim_list, 1, Len(claim_list)) = claim_list
                  /\ r.store.claim_list[Len(claim_list) + 1].amount = P
                  /\ r.store.claim_list[Len(claim_list) + 1].timestamp = now
                  /\ \A i \in 1..Len(claim_list) :
                        claim_list[i].key < r.store.claim_list[Len(claim_list) + 1].key
                  /\ r.store.state.locked_b_luna = state.locked_b_luna + P
                  /\ r.store = [Storage EXCEPT
                                   !.claim_list = r.store.claim_list,
                                   !.state.locked_b_luna = state.locked_b_luna + P]
                  /\ r.msgs = <<ClaimLiquidationsMsg>>
                  /\ ClaimLiquidationsMsg.bids_idx = None

\* Collateral is pending while a record is already locked, and an address
\* that is neither the owner nor permitted to bid claims it in the paused
\* vault.
C20_Witness ==
    /\ claim_list # <<>>
    /\ state.paused
    /\ SumPending(bids) # 0
    /\ \E sender \in Addr :
          /\ sender # state.owner
          /\ ~LoadPermission(permissions, sender)
          /\ claim_liquidation(sender).res = "Ok"
          /\ Committed(0, claim_liquidation(sender))

\* The length of the longest prefix of the lock queue all of whose records
\* satisfy timestamp + LOCK_PERIOD <= now.
MaturedPrefixLen ==
    CHOOSE n \in 0..Len(claim_list) :
        /\ \A i \in 1..n : claim_list[i].timestamp + LOCK_PERIOD <= now
        /\ n < Len(claim_list) => claim_list[n + 1].timestamp + LOCK_PERIOD > now

\* C21: unlock removes exactly the longest matured prefix of the lock queue,
\* keeps the records behind it in their order, and subtracts the sum of the
\* removed amounts from locked_b_luna, changing nothing else and emitting
\* nothing; when that sum is zero it fails as Insufficient and the queue
\* and locked_b_luna are as before.
C21_UnlockMaturedPrefix ==
    \A sender \in Addr :
        LET r == unlock(sender)
            n == MaturedPrefixLen
            sum == SumAmount(SubSeq(claim_list, 1, n))
            after == StorageAfter(0, r)
        IN  /\ sum # 0 =>
                  /\ r.res = "Ok"
                  /\ r.msgs = <<>>
                  /\ r.store = [Storage EXCEPT
                        !.claim_list = SubSeq(claim_list, n + 1, Len(claim_list)),
                        !.state.locked_b_luna = state.locked_b_luna - sum]
                  /\ Committed(0, r) /\ after = r.store
            /\ sum = 0 =>
                  /\ r.res = "Insufficient"
                  /\ r.msgs = <<>>
                  /\ after.claim_list = claim_list
                  /\ after.state.locked_b_luna = state.locked_b_luna
                  /\ after = Storage

\* Two records have matured and are released together by one unlock.
C21_Witness ==
    /\ Len(claim_list) = 2
    /\ MaturedPrefixLen = 2
    /\ \E sender \in Addr :
          /\ unlock(sender).res = "Ok"
          /\ unlock(sender).store.claim_list = <<>>
          /\ unlock(sender).store.state.locked_b_luna
                 = state.locked_b_luna - (claim_list[1].amount + claim_list[2].amount)
          /\ Committed(0, unlock(sender))

\* C22: with free_amount the vault's bLuna balance less locked_b_luna, swap
\* fails as Insufficient and does nothing when free_amount is zero, and
\* otherwise emits exactly one swap message for exactly free_amount and
\* writes nothing; the amount offered leaves every record of the lock queue
\* covered, whether its lock period still runs or it has matured and was
\* not yet released by unlock, and after the swap the balance is exactly
\* locked_b_luna.
C22_SwapOffersFreeOnly ==
    \A sender \in Addr :
        LET free_amount == b_luna - state.locked_b_luna
            r == swap(sender)
        IN  /\ free_amount = 0 =>
                  /\ r.res = "Insufficient"
                  /\ r.msgs = <<>>
                  /\ StorageAfter(0, r) = Storage
            /\ free_amount # 0 =>
                  /\ r.res = "Ok"
                  /\ r.msgs = <<SwapSendMsg(free_amount, None)>>
                  /\ r.store = Storage
                  /\ r.msgs[1].amount + SumAmount(claim_list) <= b_luna
                  /\ Committed(0, r)
                  /\ Host(0, r).b_luna = state.locked_b_luna
                  /\ Host(0, r).b_luna >= SumAmount(claim_list)

\* The vault holds free bLuna next to a record that has matured and was not
\* released, and the swap offers the free bLuna only.
C22_Witness ==
    /\ claim_list # <<>>
    /\ IsMatured(claim_list[1])
    /\ b_luna > state.locked_b_luna
    /\ \E sender \in Addr :
          /\ swap(sender).res = "Ok"
          /\ swap(sender).msgs[1].amount < b_luna
          /\ Committed(0, swap(sender))

\* The step is a committed transfer_ownership(new_owner) by `old`.
TransferStep(old, new_owner) ==
    LET r == transfer_ownership(old, new_owner)
    IN  /\ r.res = "Ok"
        /\ state' = r.store.state
        /\ permissions' = r.store.permissions
        /\ UNCHANGED <<balances, last_deposit, claim_list, uusd, b_luna, bids,
                       price, now>>

\* C23: transfer_ownership(new_owner) by the owner succeeds, sets the owner
\* to new_owner and grants new_owner the permission to submit bids; in the
\* state it leaves, the owner-only handlers answer the previous owner (when
\* another address) Unauthorized, and answer new_owner as the owner, who
\* also passes the permission gate of submit_bid.
C23_TransferOwnership ==
    [][\A old \in Addr, new_owner \in Addr :
          /\ old = state.owner =>
                LET r == transfer_ownership(old, new_owner)
                IN  /\ r.res = "Ok"
                    /\ r.msgs = <<>>
                    /\ Committed(0, r)
                    /\ r.store.state = [state EXCEPT !.owner = new_owner]
                    /\ LoadPermission(r.store.permissions, new_owner)
          /\ (old = state.owner /\ TransferStep(old, new_owner)) =>
                /\ state'.owner = new_owner
                /\ LoadPermission(permissions', new_owner)
                /\ old # new_owner =>
                      \A q \in OwnerOnly(old)' : q.res = "Unauthorized"
                /\ \A q \in OwnerOnly(new_owner)' : q.res \in {"Ok", "Invalidate"}
                /\ \E q \in OwnerOnly(new_owner)' : q.res = "Ok"
                /\ \A amount \in 0..MaxFunds, premium_slot \in Slots :
                      submit_bid(new_owner, amount, premium_slot)'.res # "Unauthorized"]_vars

\* The owner can hand the vault to an address that is refused as a
\* stranger and holds no permission to bid.
C23_Witness ==
    \E new_owner \in Addr \ {state.owner} :
        /\ ~LoadPermission(permissions, new_owner)
        /\ \A q \in OwnerOnly(new_owner) : q.res = "Unauthorized"
        /\ submit_bid(new_owner, 1, 1).res = "Unauthorized"
        /\ transfer_ownership(state.owner, new_owner).res = "Ok"
        /\ Committed(0, transfer_ownership(state.owner, new_owner))
        /\ state.total_supply > 0

\* The step is a committed claim_liquidation that put one record behind
\* the records of the lock queue.
ClaimStep ==
    \E sender \in Addr :
        LET r == claim_liquidation(sender)
        IN  /\ Committed(0, r)
            /\ Storage' = r.store
            /\ uusd' = Host(0, r).uusd
            /\ b_luna' = Host(0, r).b_luna
            /\ bids' = Host(0, r).bids
            /\ Len(claim_list') = Len(claim_list) + 1
            /\ SubSeq(claim_list', 1, Len(claim_list)) = claim_list

\* The step is a committed unlock that took records from the front of the
\* lock queue.
UnlockStep ==
    \E sender \in Addr :
        LET r == unlock(sender)
        IN  /\ Committed(0, r)
            /\ Storage' = r.store
            /\ uusd' = Host(0, r).uusd
            /\ b_luna' = Host(0, r).b_luna
            /\ bids' = Host(0, r).bids
            /\ \E n \in 1..Len(claim_list) :
                  claim_list' = SubSeq(claim_list, n + 1, Len(claim_list))

\* C24: the lock queue and locked_b_luna change only in a committed
\* claim_liquidation, which appends at the back, and in a committed unlock,
\* which removes from the front; no committed deposit, withdraw_ust,
\* submit_bid, activate_bid, swap, pause_resume, set_permission,
\* set_swap_wallet or transfer_ownership and no outside event changes either.
C24_LockQueueFrame ==
    [][(claim_list' # claim_list \/ state'.locked_b_luna # state.locked_b_luna)
          => (ClaimStep \/ UnlockStep)]_vars

\* While a matured record waits in the lock queue, a withdrawal and a swap
\* are committed and leave the queue alone.
C24_Witness ==
    /\ claim_list # <<>>
    /\ IsMatured(claim_list[1])
    /\ \E sender \in Addr, share \in 1..MaxSupply :
          LET r == withdraw_ust(sender, share)
          IN  /\ Committed(0, r)
              /\ r.store.claim_list = claim_list
              /\ r.store.state.locked_b_luna = state.locked_b_luna
    /\ \E sender \in Addr :
          LET r == swap(sender)
          IN  Committed(0, r) /\ r.store.claim_list = claim_list

\* ---------------------------------------------------- the pagination loop
\* The loop examined on its own: the vault as instantiated, holding some
\* uusd and bLuna, and a queue that lists up to MaxBids bids of the vault
\* under ascending identifiers, with gaps where bids have left.
PagesInit ==
    /\ \E owner \in Addr, swap_wallet \in Wallets : Instantiate(owner, swap_wallet)
    /\ uusd \in 0..1
    /\ b_luna \in 0..1
    /\ bids = <<>>
    /\ price = 1
    /\ now = 0
    /\ trip = None

\* The queue lists one more bid of the vault, under a larger identifier.
QueueLists ==
    \E idx \in NextIdx(bids)..MaxBids, amount \in 0..1, pending \in 0..1 :
        /\ amount + pending # 0
        /\ bids' = Append(bids, [idx |-> idx, amount |-> amount,
                                 pending_liquidated_collateral |-> pending])
        /\ UNCHANGED <<state, balances, permissions, last_deposit, claim_list,
                       uusd, b_luna, price, now, trip>>

PagesNext == QueueLists \/ SetPrice

PagesSpec == PagesInit /\ [][PagesNext]_vars

RECURSIVE Concat(_)
Concat(pages) == IF pages = <<>> THEN <<>> ELSE Head(pages) \o Concat(Tail(pages))

\* C25: for every list of bids under ascending identifiers the pagination
\* loop terminates after Len \div Limit + 1 pages, the pages put together
\* are the list itself (every bid once, none twice), also for no bid and
\* for a number of bids that is a multiple of Limit, and the total cap is
\* uusd + the sum of the bid amounts
\* + floor((bLuna + the sum of the pending collateral) * rate).
C25_PaginationCountsOnce ==
    /\ Len(BidPagesFrom(0)) = (Len(bids) \div Limit) + 1
    /\ Concat(BidPagesFrom(0)) = bids
    /\ \A i \in 1..Len(BidPagesFrom(0)) :
          Len(BidPagesFrom(0)[i]) < Limit <=> i = Len(BidPagesFrom(0))
    /\ BidTotals = [usd |-> SumAmount(bids), b_luna |-> SumPending(bids)]
    /\ TotalCap(uusd) = uusd + SumAmount(bids)
                          + ((b_luna + SumPending(bids)) * price) \div DecimalFractional
    /\ query_total_cap = TotalCap(uusd)

\* Four bids with a gap in their identifiers fill two pages exactly, a
\* third, empty page ends the loop, and the rate rounds the collateral down.
C25_Witness ==
    /\ Len(bids) = 2 * Limit
    /\ bids[Len(bids)].idx > Len(bids)
    /\ Len(BidPagesFrom(0)) = 3
    /\ BidPagesFrom(0)[3] = <<>>
    /\ SumAmount(bids) > 0
    /\ SumPending(bids) > 0
    /\ ((b_luna + SumPending(bids)) * price) % DecimalFractional # 0

\* C26: instantiate succeeds for every sender, emits no message, and writes
\* owner = the owner named in the message, whoever the sender is,
\* total_supply = 0, locked_b_luna = 0, paused = FALSE and the permission
\* to submit bids for that owner and for no other address.
C26_Instantiation ==
    \A sender \in Addr, owner \in Addr, swap_wallet \in Wallets :
        LET r == instantiate(sender, owner, swap_wallet)
        IN  /\ r.res = "Ok"
            /\ r.msgs = <<>>
            /\ r.store.state.owner = owner
            /\ r.store.state.total_supply = 0
            /\ r.store.state.locked_b_luna = 0
            /\ r.store.state.paused = FALSE
            /\ r.store.state.swap_wallet = swap_wallet
            /\ \A a \in Addr : LoadPermission(r.store.permissions, a) <=> a = owner
            /\ Instantiate(owner, swap_wallet) =>
                  /\ state.owner = owner
                  /\ state.total_supply = 0 /\ state.locked_b_luna = 0 /\ ~state.paused
                  /\ \A a \in Addr : query_permission(a) <=> a = owner

\* The vault right after a sender instantiated it for another address.
C26_Witness ==
    /\ \E sender \in Addr, owner \in Addr, swap_wallet \in Wallets :
          /\ owner # sender
          /\ Storage = instantiate(sender, owner, swap_wallet).store
          /\ state.owner # sender
          /\ submit_bid(sender, 1, 1).res = "Unauthorized"
    /\ uusd = 0 /\ b_luna = 0 /\ bids = <<>> /\ now = 0

\* ---------------------------------------------------------- the round trip
\* A deposit followed to its withdrawal: the vault runs as in Spec, under
\* rates up to 2.5, until one deposit is singled out; from then on only
\* time passes until the depositor withdraws the shares that deposit minted.
TripPrices == Prices \cup {5}

TripInit ==
    /\ \E owner \in Addr, swap_wallet \in Wallets : Instantiate(owner, swap_wallet)
    /\ uusd = 0
    /\ b_luna = 0
    /\ bids = <<>>
    /\ price \in TripPrices
    /\ now = 0
    /\ trip = None

\* Before the deposit: any step of the vault and its surroundings.
TripSetup == trip = None /\ Next

\* The oracle reports the highest rate.
TripRate ==
    /\ trip = None
    /\ price # 5
    /\ price' = 5
    /\ UNCHANGED <<state, balances, permissions, last_deposit, claim_list,
                   uusd, b_luna, bids, now, trip>>

\* The deposit that is followed, with what the vault was before it.
TripDeposit ==
    /\ trip = None
    /\ \E sender \in Addr, funds \in FundsChoices :
          LET r == deposit(sender, funds)
          IN  /\ Committed(AttachedUusd(funds), r)
              /\ Effect(AttachedUusd(funds), r)
              /\ trip' = Some([sender |-> sender,
                               amount |-> r.attrs.amount,
                               share |-> r.attrs.share,
                               time |-> now,
                               supply |-> state.total_supply,
                               empty |-> /\ state.total_supply = 0
                                         /\ uusd = 0 /\ b_luna = 0 /\ bids = <<>>])

\* Nothing but time changes while the deposit is followed.
TripTick == trip # None /\ Tick

\* The depositor asks for exactly the shares the deposit minted.
TripWithdraw ==
    /\ trip # None
    /\ Effect(0, withdraw_ust(trip[1].sender, trip[1].share))
    /\ trip' = None

TripNext == TripSetup \/ TripRate \/ TripDeposit \/ TripTick \/ TripWithdraw

RoundTripSpec == TripInit /\ [][TripNext]_vars

\* C27 as stated: once the cooldown of the followed deposit of X has
\* elapsed, the withdrawal of the shares it minted succeeds; it pays at most
\* X when total_supply was positive before the deposit, and exactly X,
\* bringing total_supply back to 0, when the vault was empty before it.
C27_RoundTrip ==
    (trip # None /\ ~WithdrawLocked(trip[1].time)) =>
        LET r == withdraw_ust(trip[1].sender, trip[1].share)
        IN  /\ r.res = "Ok"
            /\ Committed(0, r)
            /\ trip[1].supply > 0 => r.attrs.amount <= trip[1].amount
            /\ trip[1].empty =>
                  /\ r.attrs.amount = trip[1].amount
                  /\ r.store.state.total_supply = 0

\* C28: submit_bid by a caller with the permission succeeds exactly when the
\* amount is non-zero and the idle uusd balance is at least the amount, and
\* fails as Insufficient otherwise; on success it emits exactly one
\* SubmitBid message that carries exactly `amount` uusd and the requested
\* premium slot; in no case does it write to the vault's storage.
C28_SubmitBidFunded ==
    \A sender \in Addr, amount \in 0..MaxFunds + 1, premium_slot \in Slots :
        LET r == submit_bid(sender, amount, premium_slot)
        IN  /\ r.store = Storage
            /\ StorageAfter(0, r) = Storage
            /\ LoadPermission(permissions, sender) =>
                  /\ r.res = "Ok" <=> (amount # 0 /\ uusd >= amount)
                  /\ r.res # "Ok" => (r.res = "Insufficient" /\ r.msgs = <<>>)
                  /\ r.res = "Ok" =>
                        /\ Len(r.msgs) = 1
                        /\ r.msgs[1].kind = "SubmitBid"
                        /\ r.msgs[1].funds = amount
                        /\ r.msgs[1].premium_slot = premium_slot
                        /\ Host(0, r).ok
                        /\ Host(0, r).uusd = uusd - amount
                        /\ SumAmount(Host(0, r).bids) = SumAmount(bids) + amount

\* A permitted caller bids part of the idle balance in the second slot,
\* and is refused for zero and for one more than the balance.
C28_Witness ==
    /\ uusd = 2
    /\ \E sender \in Addr :
          /\ LoadPermission(permissions, sender)
          /\ submit_bid(sender, 1, 2).res = "Ok"
          /\ submit_bid(sender, 1, 2).msgs[1].premium_slot = 2
          /\ Committed(0, submit_bid(sender, 1, 2))
          /\ submit_bid(sender, 0, 2).res = "Insufficient"
          /\ submit_bid(sender, uusd + 1, 2).res = "Insufficient"

\* C29: block time never decreases, every record of the lock queue is
\* stamped no later than now, the timestamps never decrease and the keys
\* strictly increase from front to back, a new record gets a key above
\* every key there is, and after a successful unlock no remaining record
\* has timestamp + LOCK_PERIOD <= now.
C29_LockQueueOrdered ==
    [][/\ now' >= now
       /\ \A i \in 1..Len(claim_list) : claim_list[i].timestamp <= now
       /\ \A i \in 1..Len(claim_list), j \in 1..Len(claim_list) :
             i < j => /\ claim_list[i].timestamp <= claim_list[j].timestamp
                      /\ claim_list[i].key < claim_list[j].key
       /\ \A i \in 1..Len(claim_list) : claim_list[i].key < NewKey(claim_list)
       /\ \A sender \in Addr :
             LET r == unlock(sender)
             IN  r.res = "Ok" =>
                     \A i \in 1..Len(r.store.claim_list) :
                         r.store.claim_list[i].timestamp + LOCK_PERIOD > now]_vars

\* Two records claimed at different times: the older has matured, and
\* unlock releases it and leaves the younger, whose lock period still runs.
C29_Witness ==
    /\ Len(claim_list) = 2
    /\ claim_list[1].timestamp < claim_list[2].timestamp
    /\ claim_list[1].key < claim_list[2].key
    /\ IsMatured(claim_list[1])
    /\ ~IsMatured(claim_list[2])
    /\ \E sender \in Addr :
          /\ Committed(0, unlock(sender))
          /\ Len(unlock(sender).store.claim_list) = 1

\* The step is the committed invocation with result r that came with
\* `funds` uusd, at an unchanged rate.
CommittedStep(funds, r) ==
    /\ Committed(funds, r)
    /\ Storage' = r.store
    /\ uusd' = Host(funds, r).uusd
    /\ b_luna' = Host(funds, r).b_luna
    /\ bids' = Host(funds, r).bids
    /\ price' = price

\* C30: at an unchanged rate no committed deposit and no committed
\* withdraw_ust lowers the value of a share: with total_supply positive
\* before and after,
\* total_cap after * total_supply before >= total_cap before * total_supply after.
C30_NoDilution ==
    [][(/\ price' = price
        /\ now' = now
        /\ state'.total_supply # state.total_supply \/ uusd' > uusd
        /\ \/ \E sender \in Addr, funds \in FundsChoices :
                CommittedStep(AttachedUusd(funds), deposit(sender, funds))
           \/ \E sender \in Addr, share \in 1..MaxSupply :
                CommittedStep(0, withdraw_ust(sender, share)))
          => ((state.total_supply > 0 /\ state'.total_supply > 0) =>
                 TotalCap(uusd)' * state.total_supply
                     >= TotalCap(uusd) * state'.total_supply)]_vars

\* Next to another holder, one address can make a deposit that takes
\* effect and whose scaled amount is rounded down, and a holder can make
\* a withdrawal that takes effect and leaves shares outstanding.
C30_Witness ==
    /\ state.total_supply > 0
    /\ TotalCap(uusd) > 0
    /\ \E sender \in Addr, funds \in FundsChoices :
          /\ \E other \in Addr \ {sender} : balances[other] > 0
          /\ Committed(AttachedUusd(funds), deposit(sender, funds))
          /\ (AttachedUusd(funds) * state.total_supply) % TotalCap(uusd) # 0
    /\ \E sender \in Addr, share \in 1..MaxSupply :
          /\ Committed(0, withdraw_ust(sender, share))
          /\ withdraw_ust(sender, share).store.state.total_supply > 0

\* C31 as stated: every deposit of a positive amount that takes effect
\* credits the depositor with a positive number of shares.
C31_DepositMintsPositive ==
    \A sender \in Addr, funds \in FundsChoices :
        LET r == deposit(sender, funds)
        IN  (ValidFunds(funds) /\ Committed(AttachedUusd(funds), r)) =>
                /\ r.attrs.share > 0
                /\ r.store.balances[sender] > balances[sender]

\* C32 as stated: in every reachable state the current owner holds the
\* permission to submit bids.
C32_OwnerHoldsPermission ==
    /\ LoadPermission(permissions, state.owner)
    /\ query_permission(state.owner)

\* The amount a sequence of messages retracts from the bids bs: a full
\* retract counts at the amount of its bid.
RECURSIVE RetractSum(_, _)
RetractSum(msgs, bs) ==
    IF msgs = <<>> THEN 0
    ELSE LET m == Head(msgs)
             amount == IF m.kind # "RetractBid" THEN 0
                       ELSE IF m.amount = None THEN bs[BidAt(bs, m.bid_idx)].amount
                       ELSE m.amount[1]
         IN  amount + RetractSum(Tail(msgs), bs)

\* C33: in a withdrawal whose payout exceeds the idle uusd balance by a
\* shortfall the bids can cover, the amounts of the emitted retracts (a full
\* retract counted at the amount of its bid) sum to exactly the shortfall;
\* the host then executes every message, the payout included, the idle uusd
\* balance ends at zero and the sum of the bid amounts has dropped by
\* exactly the shortfall.
C33_RetractsSumToShortfall ==
    \A sender \in Addr, share \in 1..MaxSupply :
        LET r == withdraw_ust(sender, share)
            shortfall == Payout(share) - uusd
            ext == Host(0, r)
        IN  (r.res = "Ok" /\ uusd < Payout(share)
                /\ Payout(share) <= uusd + SumAmount(bids)) =>
                /\ RetractSum(r.msgs, bids) = shortfall
                /\ ext.ok
                /\ ext.uusd = 0
                /\ SumAmount(ext.bids) = SumAmount(bids) - shortfall

\* A withdrawal retracts a bid in full and the rest of the shortfall from
\* the next one, and takes effect.
C33_Witness ==
    \E sender \in Addr, share \in 1..MaxSupply :
        LET r == withdraw_ust(sender, share)
        IN  /\ r.res = "Ok"
            /\ Len(bids) >= 2
            /\ uusd < Payout(share)
            /\ Payout(share) <= uusd + SumAmount(bids)
            /\ Len(r.msgs) = 3
            /\ r.msgs[1].kind = "RetractBid" /\ r.msgs[1].amount = None
            /\ r.msgs[2].kind = "RetractBid" /\ r.msgs[2].amount # None
            /\ Committed(0, r)

\* C34: the withdrawable limit of an address never exceeds its share
\* balance, and for every share amount S with 0 < S <= limit the payout
\* floor(total_cap * S / total_supply) is at most the idle uusd balance plus
\* the sum of the bid amounts, so that a withdrawal of S in the same state
\* that is not refused as locked closes its shortfall within the bids: it
\* succeeds, lists nothing but retracts before the payout transfer, and
\* the host executes it.
C34_WithdrawableLimit ==
    \A address \in Addr :
        LET limit == query_withdrawable_limit(address)
        IN  /\ limit <= query_balance(address)
            /\ \A S \in 1..limit :
                  LET r == withdraw_ust(address, S)
                      n == Len(r.msgs)
                  IN  /\ Payout(S) <= uusd + SumAmount(bids)
                      /\ r.res \in {"Ok", "Locked"}
                      /\ r.res = "Ok" =>
                            /\ uusd < Payout(S) =>
                                   RetractLoop(0, Payout(S) - uusd, <<>>).usd_balance = 0
                            /\ r.msgs[n] = BankSendMsg(address, Payout(S))
                            /\ \A i \in 1..(n - 1) : r.msgs[i].kind = "RetractBid"
                            /\ Committed(0, r)

\* Liquidated collateral makes the limit of a holder smaller than the
\* balance, and a withdrawal of the limit retracts from a bid and takes
\* effect, while a withdrawal of the whole balance would not.
C34_Witness ==
    \E address \in Addr :
        LET limit == query_withdrawable_limit(address)
            r == withdraw_ust(address, limit)
        IN  /\ 0 < limit
            /\ limit < balances[address]
            /\ r.res = "Ok"
            /\ r.msgs[1].kind = "RetractBid"
            /\ Committed(0, r)
            /\ ~Committed(0, withdraw_ust(address, balances[address]))

\* C35: in every reachable state the Unlockable query answers true exactly
\* when an unlock invoked at the same block time succeeds, and the Claimable
\* query answers true exactly when a claim_liquidation invoked in the same
\* state succeeds.
C35_QueriesPredictHandlers ==
    \A sender \in Addr :
        /\ query_unlockable <=>
               (unlock(sender).res = "Ok" /\ Committed(0, unlock(sender)))
        /\ query_claimable <=>
               (claim_liquidation(sender).res = "Ok"
                   /\ Committed(0, claim_liquidation(sender)))

\* The first lock record has matured while a bid has liquidated collateral
\* pending: both queries answer true and both handlers take effect.
C35_Witness ==
    /\ Len(claim_list) >= 1
    /\ query_unlockable
    /\ query_claimable
    /\ \E sender \in Addr :
          /\ Committed(0, unlock(sender))
          /\ Committed(0, claim_liquidation(sender))

\* The step is a committed submit_bid, claim_liquidation or unlock, at an
\* unchanged rate.
BidOrLockStep ==
    \/ \E sender \in Addr, amount \in 0..MaxFunds, premium_slot \in Slots :
          CommittedStep(0, submit_bid(sender, amount, premium_slot))
    \/ \E sender \in Addr : CommittedStep(0, claim_liquidation(sender))
    \/ \E sender \in Addr : CommittedStep(0, unlock(sender))

\* C36: at an unchanged rate, and with the queue and the bLuna ledger
\* executing the messages, a committed submit_bid, activate_bid,
\* claim_liquidation or unlock changes neither the total cap that
\* query_total_cap reports nor total_supply nor any share balance.  An
\* activate_bid is always committed and changes neither the storage nor an
\* account; a committed submit_bid changes the bids, a committed
\* claim_liquidation or unlock the lock queue, and every such step keeps
\* the three.
C36_BidAndLockKeepValue ==
    /\ [](\A sender \in Addr :
             LET r == activate_bid(sender)
             IN  Committed(0, r) /\ r.store = Storage /\ Host(0, r) = External)
    /\ [][(/\ price' = price
           /\ now' = now
           /\ bids' # bids \/ claim_list' # claim_list
           /\ BidOrLockStep)
             => /\ query_total_cap' = query_total_cap
                /\ state'.total_supply = state.total_supply
                /\ balances' = balances]_vars

\* With shares outstanding and liquidated collateral pending, a bid can be
\* submitted, bids activated and the collateral claimed, and each
\* invocation takes effect; the claim adds to the locked bLuna.
C36_Witness ==
    /\ state.total_supply > 0
    /\ query_total_cap > 0
    /\ \E sender \in Addr, amount \in 1..MaxFunds, premium_slot \in Slots :
          Committed(0, submit_bid(sender, amount, premium_slot))
    /\ \E sender \in Addr :
          /\ Committed(0, activate_bid(sender))
          /\ Committed(0, claim_liquidation(sender))
          /\ claim_liquidation(sender).store.state.locked_b_luna > state.locked_b_luna

\* ------------------------------------------------------ release of locks
\* The vault under the fairness the release of locks is stated for: block
\* time keeps advancing as long as the bound on it allows, and an unlock
\* that would take effect is eventually invoked.
LiveSpec == Init /\ [][Next]_vars /\ WF_vars(Tick) /\ WF_vars(Unlock)

\* The lock queue holds a record created at time t.
LockedAt(t) == \E i \in 1..Len(claim_list) : claim_list[i].timestamp = t

\* An unlock invoked once the i-th record of the lock queue has matured
\* succeeds, removes that record and every earlier one, takes their amounts
\* out of locked_b_luna, and leaves at least these amounts for swap to offer.
ReleasesUpTo(i) ==
    \A sender \in Addr :
        LET r == unlock(sender)
            released == SumAmount(SubSeq(claim_list, 1, i))
        IN  /\ r.res = "Ok"
            /\ Committed(0, r)
            /\ \A j \in 1..i, k \in 1..Len(r.store.claim_list) :
                  r.store.claim_list[k].key # claim_list[j].key
            /\ Len(r.store.claim_list) <= Len(claim_list) - i
            /\ state.locked_b_luna - r.store.state.locked_b_luna >= released
            /\ SwapAmount(b_luna, r.store.state.locked_b_luna) >= released

\* C37: block time never decreases, and an unlock invoked at a time
\* now >= t + LOCK_PERIOD, where t is the time a lock record was created,
\* succeeds and removes that record together with all earlier ones; hence,
\* when time keeps advancing and unlock keeps being invoked, every record
\* created at a time t that leaves a lock period before the bound on time
\* eventually is out of the lock queue, its amount out of locked_b_luna and
\* within what swap offers.
C37_LockRelease ==
    /\ [][now' >= now]_vars
    /\ [](\A i \in 1..Len(claim_list) :
             claim_list[i].timestamp + LOCK_PERIOD <= now => ReleasesUpTo(i))
    /\ \A t \in 0..(MaxTime - LOCK_PERIOD) : LockedAt(t) ~> ~LockedAt(t)

\* The second of two records created at different times matures at this
\* very block time: an unlock takes effect, empties the lock queue and
\* frees both amounts for swap.
C37_Witness ==
    /\ Len(claim_list) = 2
    /\ claim_list[1].timestamp < claim_list[2].timestamp
    /\ claim_list[2].timestamp + LOCK_PERIOD = now
    /\ \E sender \in Addr :
          LET r == unlock(sender)
          IN  /\ Committed(0, r)
              /\ r.store.claim_list = <<>>
              /\ r.store.state.locked_b_luna = 0
              /\ SwapAmount(b_luna, r.store.state.locked_b_luna)
                     >= claim_list[1].amount + claim_list[2].amount

====
